---------------------------- MODULE Spec2Model ----------------------------
(***************************************************************************)
(* Model of src/app.js: a top-to-bottom script that runs loopWhile,        *)
(* validaSenha, exibirListaFixa, solicitarCincoNumeros and then logs the   *)
(* results of mensagemPersonalizada, saudacao, calcularQuadrado and        *)
(* Subtracao.  The two collaborators are the prompt() function (modelled   *)
(* by the log `asked` of labels and answers) and console.log (modelled by  *)
(* the log `out` of emitted lines).                                        *)
(*                                                                         *)
(* A JavaScript string is a sequence of one-character strings, so that     *)
(* parseInt and parseFloat can be computed character by character.  A      *)
(* JavaScript number produced by parsing is a record                       *)
(*     [kind, neg, m, e]   standing for  (-1)^neg * m / 10^e,              *)
(* kind being "fin", "inf" or "nan", kept normalised (no trailing zero in  *)
(* m while e > 0), which is exact for the short decimal strings used here. *)
(***************************************************************************)
EXTENDS Integers, Sequences, FiniteSets, TLC

VARIABLES
    pc,          \* position of the single thread of control in the script
    numero,      \* loopWhile: let numero
    tentativas,  \* validaSenha: let tentativas
    acesso,      \* validaSenha: let acesso
    tentativa,   \* validaSenha: let tentativa
    numeros,     \* solicitarCincoNumeros: const numeros
    i,           \* solicitarCincoNumeros: let i
    out,         \* console.log: the lines emitted so far
    asked,       \* prompt(): the labels shown and the answers returned so far
    args,        \* arguments of the numeric function called last
    ret          \* value returned by the numeric function called last

vars == <<pc, numero, tentativas, acesso, tentativa, numeros, i, out, asked, args, ret>>

----------------------------------------------------------------------------
(* Bounds of the model *)

\* loopWhile may prompt for ever; the model lets it prompt at most this often.
MaxLoopPrompts == 3

\* Pure functions are applied to integers in -MaxArg .. MaxArg.
MaxArg == 10

----------------------------------------------------------------------------
(* Values returned by prompt(): a string, or null when the dialog is cancelled *)

Str(chars) == [kind |-> "str", chars |-> chars]
Null == [kind |-> "null", chars |-> <<>>]
Undefined == [kind |-> "undefined", chars |-> <<>>]

\* ToJSString applied by parseInt/parseFloat to their argument.
ToJSString(v) ==
    CASE v.kind = "str" -> v.chars
      [] v.kind = "null" -> <<"n", "u", "l", "l">>
      [] OTHER -> <<"u", "n", "d", "e", "f", "i", "n", "e", "d">>

\* tentativa === senhaCorreta: same type (string) and same characters.
StrictEqStr(v, chars) == v.kind = "str" /\ v.chars = chars

----------------------------------------------------------------------------
(* Numbers *)

NaN == [kind |-> "nan", neg |-> FALSE, m |-> 0, e |-> 0]
Infinity(neg) == [kind |-> "inf", neg |-> neg, m |-> 0, e |-> 0]

Pow10(k) == 10 ^ k

\* (-1)^neg * m / 10^e with e an integer, brought to the normal form.
RECURSIVE Normalise(_, _, _)
Normalise(neg, m, e) ==
    IF m = 0 THEN [kind |-> "fin", neg |-> neg, m |-> 0, e |-> 0]
    ELSE IF e < 0 THEN [kind |-> "fin", neg |-> neg, m |-> m * Pow10(-e), e |-> 0]
    ELSE IF e > 0 /\ m % 10 = 0 THEN Normalise(neg, m \div 10, e - 1)
    ELSE [kind |-> "fin", neg |-> neg, m |-> m, e |-> e]

\* The number value of an integer literal or of an integer result.
FromInt(n) == Normalise(n < 0, IF n < 0 THEN -n ELSE n, 0)

\* x === y on numbers: NaN equals nothing, -0 equals +0.
NumStrictEq(x, y) ==
    /\ x.kind # "nan"
    /\ y.kind # "nan"
    /\ x.kind = y.kind
    /\ x.m = y.m
    /\ x.e = y.e
    /\ (x.neg = y.neg \/ (x.kind = "fin" /\ x.m = 0))

----------------------------------------------------------------------------
(* parseInt and parseFloat *)

IsWhiteSpace(c) == c \in {" ", "\t", "\n", "\r"}

DigitValue(c) ==
    CASE c = "0" -> 0 [] c = "1" -> 1 [] c = "2" -> 2 [] c = "3" -> 3
      [] c = "4" -> 4 [] c = "5" -> 5 [] c = "6" -> 6 [] c = "7" -> 7
      [] c = "8" -> 8 [] c = "9" -> 9
      [] c \in {"a", "A"} -> 10 [] c \in {"b", "B"} -> 11
      [] c \in {"c", "C"} -> 12 [] c \in {"d", "D"} -> 13
      [] c \in {"e", "E"} -> 14 [] c \in {"f", "F"} -> 15
      [] OTHER -> 99

IsDigit(c, radix) == DigitValue(c) < radix

RECURSIVE TrimStart(_)
TrimStart(s) ==
    IF s # <<>> /\ IsWhiteSpace(Head(s)) THEN TrimStart(Tail(s)) ELSE s

\* The longest prefix of s made of digits of the radix.
RECURSIVE DigitPrefix(_, _)
DigitPrefix(s, radix) ==
    IF s # <<>> /\ IsDigit(Head(s), radix)
    THEN <<Head(s)>> \o DigitPrefix(Tail(s), radix)
    ELSE <<>>

\* The mathematical value of a sequence of digits, acc being the value so far.
RECURSIVE DigitsValue(_, _, _)
DigitsValue(s, radix, acc) ==
    IF s = <<>> THEN acc
    ELSE DigitsValue(Tail(s), radix, acc * radix + DigitValue(Head(s)))

Drop(s, n) == SubSeq(s, n + 1, Len(s))

StartsWith(s, p) == Len(s) >= Len(p) /\ SubSeq(s, 1, Len(p)) = p

HasSign(s) == s # <<>> /\ Head(s) \in {"+", "-"}

\* parseInt(v) with no radix argument.
parseInt(v) ==
    LET s == TrimStart(ToJSString(v))
        neg == s # <<>> /\ Head(s) = "-"
        s1 == IF HasSign(s) THEN Tail(s) ELSE s
        hex == Len(s1) >= 2 /\ s1[1] = "0" /\ s1[2] \in {"x", "X"}
        radix == IF hex THEN 16 ELSE 10
        s2 == IF hex THEN Drop(s1, 2) ELSE s1
        z == DigitPrefix(s2, radix)
    IN  IF z = <<>> THEN NaN ELSE Normalise(neg, DigitsValue(z, radix, 0), 0)

\* The exponent part at the start of s: e or E, an optional sign and at least
\* one digit; 0 when s does not start with a well-formed exponent part.
ExponentValue(s) ==
    IF s = <<>> \/ Head(s) \notin {"e", "E"} THEN 0
    ELSE LET t == Tail(s)
             neg == t # <<>> /\ Head(t) = "-"
             d == DigitPrefix(IF HasSign(t) THEN Tail(t) ELSE t, 10)
             x == DigitsValue(d, 10, 0)
         IN  IF neg THEN -x ELSE x

\* Variant of parseFloat: the answer is parsed with parseInt, losing the fraction.
parseFloatAsInt(v) == parseInt(v)

\* parseFloat(v): the longest prefix that is a decimal literal.
parseFloat(v) ==
    LET s == TrimStart(ToJSString(v))
        neg == s # <<>> /\ Head(s) = "-"
        s1 == IF HasSign(s) THEN Tail(s) ELSE s
        int == DigitPrefix(s1, 10)
        s2 == Drop(s1, Len(int))
        dot == s2 # <<>> /\ Head(s2) = "."
        frac == IF dot THEN DigitPrefix(Tail(s2), 10) ELSE <<>>
        s3 == IF dot THEN Drop(s2, 1 + Len(frac)) ELSE s2
    IN  IF StartsWith(s1, <<"I", "n", "f", "i", "n", "i", "t", "y">>) THEN Infinity(neg)
        ELSE IF int = <<>> /\ frac = <<>> THEN NaN
        ELSE Normalise(neg, DigitsValue(int \o frac, 10, 0), Len(frac) - ExponentValue(s3))

----------------------------------------------------------------------------
(* Template literals and the two collaborators *)

DigitChar(d) ==
    CASE d = 0 -> "0" [] d = 1 -> "1" [] d = 2 -> "2" [] d = 3 -> "3" [] d = 4 -> "4"
      [] d = 5 -> "5" [] d = 6 -> "6" [] d = 7 -> "7" [] d = 8 -> "8" [] OTHER -> "9"

\* The decimal digits of a natural number, as ${...} writes them in a template.
RECURSIVE NatToString(_)
NatToString(n) ==
    IF n < 10 THEN <<DigitChar(n)>>
    ELSE NatToString(n \div 10) \o <<DigitChar(n % 10)>>

\* A text is the sequence of its pieces (literal parts and interpolated parts).
\* console.log(strings..., numbers...): one line of the output sink.
Line(text, nums) == [text |-> text, nums |-> nums]

\* prompt(label) returning answer: one entry of the input log.
Asked(label, answer) == [label |-> label, answer |-> answer]

----------------------------------------------------------------------------
(* Answers the user may give to each prompt *)

LoopAnswers == {Str(<<"3">>), Str(<<"7">>), Null}

SenhaAnswers == {Str(<<"1", "2", "3", "4", "5", "6">>), Str(<<>>), Null}

NumeroAnswers == {Str(<<"1", ".", "5">>), Str(<<"-", "3">>), Str(<<"x">>)}

----------------------------------------------------------------------------
(* The pure functions *)

mensagemPersonalizada == <<"Bem-vindo ao programa de Ciência de Dados!">>

saudacao(nome) == <<"Olá, ", nome, ", que bom ter você no programa Trilhas.">>

\* Variant of calcularQuadrado: `numero * 2` for `numero ** 2`.
calcularQuadradoDouble(n) == n * 2

calcularQuadrado(n) == n ^ 2

\* Variant of Subtracao: the operands swapped.
SubtracaoSwapped(a, b) == b - a

Subtracao(a, b) == a - b

----------------------------------------------------------------------------
(* The script *)

Init ==
    /\ pc = "main72"
    /\ numero = NaN
    /\ tentativas = 0
    /\ acesso = FALSE
    /\ tentativa = Undefined
    /\ numeros = <<>>
    /\ i = 0
    /\ out = <<>>
    /\ asked = <<>>
    /\ args = <<>>
    /\ ret = 0

\* A console.log of the driver that prints a section header.
Header(at, text, next) ==
    /\ pc = at
    /\ out' = Append(out, Line(<<text>>, <<>>))
    /\ pc' = next
    /\ UNCHANGED <<numero, tentativas, acesso, tentativa, numeros, i, asked, args, ret>>

Main72 == Header("main72", "=== LOOP WHILE ===", "loop3")

Main75 == Header("main75", "\n=== VALIDAÇÃO DE SENHA (do...while) ===", "senha13")

Main78 == Header("main78", "\n=== LISTA FIXA ===", "lista35")

Main81 == Header("main81", "\n=== SOLICITAÇÃO DE 5 NÚMEROS ===", "numeros42")

Main84 == Header("main84", "\n=== FUNÇÕES ===", "main85")

(* loopWhile *)

\* Variant of the loop test: a NaN ends the loop as 3 does.
LoopConditionNaNStops(n) == n.kind # "nan" /\ ~NumStrictEq(n, FromInt(3))

\* `numero !== 3`
LoopCondition(n) == ~NumStrictEq(n, FromInt(3))

\* let numero = parseInt(prompt("Digite um número:"));
LoopFirstPrompt ==
    /\ pc = "loop3"
    /\ \E answer \in LoopAnswers :
          /\ asked' = Append(asked, Asked(<<"Digite um número:">>, answer))
          /\ numero' = parseInt(answer)
    /\ pc' = "loop4"
    /\ UNCHANGED <<tentativas, acesso, tentativa, numeros, i, out, args, ret>>

\* while (numero !== 3) { console.log("Você digitou:", numero);
LoopLog ==
    /\ pc = "loop4"
    /\ LoopCondition(numero)
    /\ out' = Append(out, Line(<<"Você digitou:">>, <<numero>>))
    /\ pc' = "loop6"
    /\ UNCHANGED <<numero, tentativas, acesso, tentativa, numeros, i, asked, args, ret>>

\* numero = parseInt(prompt("Digite outro número:")); }
LoopPrompt ==
    /\ pc = "loop6"
    /\ Len(asked) < MaxLoopPrompts  \* all prompts so far are loopWhile's
    /\ \E answer \in LoopAnswers :
          /\ asked' = Append(asked, Asked(<<"Digite outro número:">>, answer))
          /\ numero' = parseInt(answer)
    /\ pc' = "loop4"
    /\ UNCHANGED <<tentativas, acesso, tentativa, numeros, i, out, args, ret>>

\* Variant of the loop's end: the final value is logged like the others.
LoopExitLogsValue ==
    /\ pc = "loop4"
    /\ NumStrictEq(numero, FromInt(3))
    /\ out' = out \o << Line(<<"Você digitou:">>, <<numero>>),
                        Line(<<"Número 3 digitado. Encerrando o loop.">>, <<>>) >>
    /\ pc' = "main75"
    /\ UNCHANGED <<numero, tentativas, acesso, tentativa, numeros, i, asked, args, ret>>

\* The loop ends: console.log("Número 3 digitado. Encerrando o loop."); return
LoopExit ==
    /\ pc = "loop4"
    /\ ~LoopCondition(numero)
    /\ out' = Append(out, Line(<<"Número 3 digitado. Encerrando o loop.">>, <<>>))
    /\ pc' = "main75"
    /\ UNCHANGED <<numero, tentativas, acesso, tentativa, numeros, i, asked, args, ret>>

(* validaSenha *)

senhaCorreta == <<"1", "2", "3", "4", "5", "6">>

\* `tentativa === senhaCorreta`
SenhaConfere(t) == StrictEqStr(t, senhaCorreta)

\* Variant of the do...while test: `tentativas <= 3`.
SenhaConditionOffByOne(n) == n <= 3

\* `tentativas < 3`
SenhaCondition(n) == n < 3

\* const senhaCorreta = "123456"; let tentativas = 0; let acesso = false; let tentativa;
SenhaInit ==
    /\ pc = "senha13"
    /\ tentativas' = 0
    /\ acesso' = FALSE
    /\ tentativa' = Undefined
    /\ pc' = "senha18"
    /\ UNCHANGED <<numero, numeros, i, out, asked, args, ret>>

\* Variant of the do...while: the attempt bound is tested before the match, so
\* that a correct third submission is not accepted.
SenhaAttemptBoundFirst ==
    /\ pc = "senha18"
    /\ \E answer \in SenhaAnswers :
          /\ asked' = Append(asked, Asked(<<"Digite a senha de acesso:">>, answer))
          /\ tentativa' = answer
          /\ tentativas' = tentativas + 1
          /\ IF tentativas + 1 >= 3
             THEN acesso' = acesso /\ pc' = "senha26"
             ELSE IF StrictEqStr(answer, <<"1", "2", "3", "4", "5", "6">>)
             THEN acesso' = TRUE /\ pc' = "senha26"
             ELSE acesso' = acesso /\ pc' = "senha18"
    /\ UNCHANGED <<numero, numeros, i, out, args, ret>>

\* Variant of the do...while: no `break` after acesso = true.
SenhaAttemptNoBreak ==
    /\ pc = "senha18"
    /\ \E answer \in SenhaAnswers :
          /\ asked' = Append(asked, Asked(<<"Digite a senha de acesso:">>, answer))
          /\ tentativa' = answer
          /\ tentativas' = tentativas + 1
          /\ acesso' = (acesso \/ StrictEqStr(answer, <<"1", "2", "3", "4", "5", "6">>))
          /\ pc' = IF tentativas + 1 < 3 THEN "senha18" ELSE "senha26"
    /\ UNCHANGED <<numero, numeros, i, out, args, ret>>

\* One pass of the do...while body and its test.
SenhaAttempt ==
    /\ pc = "senha18"
    /\ \E answer \in SenhaAnswers :
          /\ asked' = Append(asked, Asked(<<"Digite a senha de acesso:">>, answer))
          /\ tentativa' = answer
          /\ tentativas' = tentativas + 1
          /\ IF SenhaConfere(answer)
             THEN acesso' = TRUE /\ pc' = "senha26"
             ELSE /\ acesso' = acesso
                  /\ pc' = IF SenhaCondition(tentativas + 1) THEN "senha18" ELSE "senha26"
    /\ UNCHANGED <<numero, numeros, i, out, args, ret>>

\* Variant of the report: the script stops when access is denied.
SenhaReportStopsOnDenied ==
    /\ pc = "senha26"
    /\ out' = Append(out, Line(<<IF acesso THEN "Acesso concedido!" ELSE "Senha bloqueada!">>, <<>>))
    /\ pc' = IF acesso THEN "main78" ELSE "done"
    /\ UNCHANGED <<numero, tentativas, acesso, tentativa, numeros, i, asked, args, ret>>

\* if (acesso) console.log("Acesso concedido!") else console.log("Senha bloqueada!")
SenhaReport ==
    /\ pc = "senha26"
    /\ out' = Append(out, Line(<<IF acesso THEN "Acesso concedido!" ELSE "Senha bloqueada!">>, <<>>))
    /\ pc' = "main78"
    /\ UNCHANGED <<numero, tentativas, acesso, tentativa, numeros, i, asked, args, ret>>

(* exibirListaFixa *)

\* Variant of the list: two values swapped.
listaSwapped == <<10, 30, 20, 40>>

lista == <<10, 20, 30, 40>>

\* console.log(x) for each x of a list of numbers, in index order.
ForEachLog(list) == [k \in 1..Len(list) |-> Line(<<>>, <<list[k]>>)]

exibirListaFixa ==
    /\ pc = "lista35"
    /\ out' = out \o <<Line(<<"Lista fixa de 4 números:">>, <<>>)>>
                  \o ForEachLog([k \in 1..Len(lista) |-> FromInt(lista[k])])
    /\ pc' = "main81"
    /\ UNCHANGED <<numero, tentativas, acesso, tentativa, numeros, i, asked, args, ret>>

(* solicitarCincoNumeros *)

\* `i < 5`
NumerosCondition(k) == k < 5

\* `Digite o ${i + 1}º número:`
NumerosLabel(k) == <<"Digite o ">> \o NatToString(k + 1) \o <<"º número:">>

\* const numeros = []; for (let i = 0; ...
NumerosInit ==
    /\ pc = "numeros42"
    /\ numeros' = <<>>
    /\ i' = 0
    /\ pc' = "numeros43"
    /\ UNCHANGED <<numero, tentativas, acesso, tentativa, out, asked, args, ret>>

\* One pass of the for body: prompt, parseFloat, push, i++.
NumerosPrompt ==
    /\ pc = "numeros43"
    /\ NumerosCondition(i)
    /\ \E answer \in NumeroAnswers :
          /\ asked' = Append(asked, Asked(NumerosLabel(i), answer))
          /\ numeros' = Append(numeros, parseFloat(answer))
    /\ i' = i + 1
    /\ UNCHANGED <<pc, numero, tentativas, acesso, tentativa, out, args, ret>>

\* The for loop ends; console.log("Números digitados:"); numeros.forEach(...)
NumerosLog ==
    /\ pc = "numeros43"
    /\ ~NumerosCondition(i)
    /\ out' = out \o <<Line(<<"Números digitados:">>, <<>>)>> \o ForEachLog(numeros)
    /\ pc' = "main84"
    /\ UNCHANGED <<numero, tentativas, acesso, tentativa, numeros, i, asked, args, ret>>

(* The last four statements of the driver: four console.log of function results *)

Main85 ==
    /\ pc = "main85"
    /\ args' = <<10, 3>>
    /\ ret' = Subtracao(10, 3)
    /\ out' = out \o << Line(mensagemPersonalizada, <<>>),
                        Line(saudacao("Ana"), <<>>),
                        Line(<<"Quadrado de 5:">>, <<FromInt(calcularQuadrado(5))>>),
                        Line(<<"Subtração de 10 e 3:">>, <<FromInt(Subtracao(10, 3))>>) >>
    /\ pc' = "done"
    /\ UNCHANGED <<numero, tentativas, acesso, tentativa, numeros, i, asked>>

Next ==
    \/ Main72 \/ LoopFirstPrompt \/ LoopLog \/ LoopPrompt \/ LoopExit
    \/ Main75 \/ SenhaInit \/ SenhaAttempt \/ SenhaReport
    \/ Main78 \/ exibirListaFixa
    \/ Main81 \/ NumerosInit \/ NumerosPrompt \/ NumerosLog
    \/ Main84 \/ Main85

Spec == Init /\ [][Next]_vars

----------------------------------------------------------------------------
(* The pure functions applied to arbitrary bounded integers *)

ArgRange == (-MaxArg) .. MaxArg

InitFn ==
    /\ pc = "fn"
    /\ numero = NaN
    /\ tentativas = 0
    /\ acesso = FALSE
    /\ tentativa = Undefined
    /\ numeros = <<>>
    /\ i = 0
    /\ out = <<>>
    /\ asked = <<>>
    /\ args \in ArgRange \X ArgRange
    /\ ret = 0

CallQuadrado ==
    /\ pc = "fn"
    /\ ret' = calcularQuadrado(args[1])
    /\ pc' = "calcularQuadrado"
    /\ UNCHANGED <<numero, tentativas, acesso, tentativa, numeros, i, out, asked, args>>

CallSubtracao ==
    /\ pc = "fn"
    /\ ret' = Subtracao(args[1], args[2])
    /\ pc' = "Subtracao"
    /\ UNCHANGED <<numero, tentativas, acesso, tentativa, numeros, i, out, asked, args>>

NextFn == CallQuadrado \/ CallSubtracao

SpecFn == InitFn /\ [][NextFn]_vars

----------------------------------------------------------------------------
(* Vocabulary of the properties: written with literal values, not with the  *)
(* definitions of the model above.                                          *)

PcOrder ==
    << "main72", "loop3", "loop4", "loop6", "main75", "senha13", "senha18",
       "senha26", "main78", "lista35", "main81", "numeros42", "numeros43",
       "main84", "main85", "done" >>

PcIndex(p) == CHOOSE k \in 1..Len(PcOrder) : PcOrder[k] = p

\* The thread of control has gone past position p.
After(p) == PcIndex(pc) > PcIndex(p)

Num(n) == [kind |-> "fin", neg |-> n < 0, m |-> IF n < 0 THEN -n ELSE n, e |-> 0]

Text(t) == [text |-> <<t>>, nums |-> <<>>]

Occurs(line) == Cardinality({k \in DOMAIN out : out[k] = line})

PositionOf(line) == CHOOSE k \in DOMAIN out : out[k] = line

IsPrefix(s, t) == Len(s) <= Len(t) /\ s = SubSeq(t, 1, Len(s))

HeaderLoop == Text("=== LOOP WHILE ===")
HeaderSenha == Text("\n=== VALIDAÇÃO DE SENHA (do...while) ===")
HeaderLista == Text("\n=== LISTA FIXA ===")
HeaderNumeros == Text("\n=== SOLICITAÇÃO DE 5 NÚMEROS ===")
HeaderFuncoes == Text("\n=== FUNÇÕES ===")
Headers == {HeaderLoop, HeaderSenha, HeaderLista, HeaderNumeros, HeaderFuncoes}

Encerrando == Text("Número 3 digitado. Encerrando o loop.")
Concedido == Text("Acesso concedido!")
Bloqueada == Text("Senha bloqueada!")
ListaFixaTitulo == Text("Lista fixa de 4 números:")
NumerosTitulo == Text("Números digitados:")
BemVindo == Text("Bem-vindo ao programa de Ciência de Dados!")
OlaAna == [text |-> <<"Olá, ", "Ana", ", que bom ter você no programa Trilhas.">>, nums |-> <<>>]
QuadradoDe5 == [text |-> <<"Quadrado de 5:">>, nums |-> <<Num(25)>>]
SubtracaoDe10e3 == [text |-> <<"Subtração de 10 e 3:">>, nums |-> <<Num(7)>>]

\* The prompts of each component, in the order they were answered.
LoopAsked ==
    SelectSeq(asked, LAMBDA a : a.label \in {<<"Digite um número:">>, <<"Digite outro número:">>})

SenhaAsked == SelectSeq(asked, LAMBDA a : a.label = <<"Digite a senha de acesso:">>)

NumerosAsked == SelectSeq(asked, LAMBDA a : Len(a.label) = 3 /\ a.label[1] = "Digite o ")

\* The "Você digitou:" lines, in the order they were emitted.
Digitado == SelectSeq(out, LAMBDA l : l.text = <<"Você digitou:">>)

Senha123456 == [kind |-> "str", chars |-> <<"1", "2", "3", "4", "5", "6">>]

\* The passwords submitted so far.
Submitted == [k \in 1..Len(SenhaAsked) |-> SenhaAsked[k].answer]

----------------------------------------------------------------------------
\* C1: once validaSenha has reported, a submission equal to "123456" among the
\* (at most three) submissions means "Acesso concedido!" was emitted and
\* "Senha bloqueada!" was not; three submissions none of which equals "123456"
\* mean "Senha bloqueada!" was emitted and "Acesso concedido!" was not; and one of
\* the two cases always applies.  A match on the 3rd submission grants access.
C1_GrantedIffMatchWithinThree ==
    After("senha26") =>
        LET match == \E k \in 1..Len(Submitted) : k <= 3 /\ Submitted[k] = Senha123456
            none == Len(Submitted) = 3 /\ \A k \in 1..3 : Submitted[k] # Senha123456
        IN  /\ match => Occurs(Concedido) = 1 /\ Occurs(Bloqueada) = 0
            /\ none => Occurs(Bloqueada) = 1 /\ Occurs(Concedido) = 0
            /\ match \/ none

\* Access was granted on the 3rd submission after two wrong ones.
C1_Witness ==
    /\ After("senha26")
    /\ Len(Submitted) = 3
    /\ Submitted[1] # Senha123456
    /\ Submitted[2] # Senha123456
    /\ Submitted[3] = Senha123456
    /\ Occurs(Concedido) = 1

\* C2: the password prompt is issued at most 3 times, and at least once by the
\* time validaSenha reports; a submission equal to "123456" is always the last
\* one (no prompt follows it); "Senha bloqueada!" is emitted only after exactly 3
\* submissions none of which matches; and tentativas counts the submissions, a
\* null or empty one included.
C2_PromptsBounded ==
    /\ Len(SenhaAsked) <= 3
    /\ After("senha18") => Len(SenhaAsked) >= 1
    /\ \A k \in 1..Len(Submitted) : Submitted[k] = Senha123456 => k = Len(Submitted)
    /\ Occurs(Bloqueada) > 0 =>
          Len(Submitted) = 3 /\ \A k \in 1..3 : Submitted[k] # Senha123456
    /\ After("senha13") => tentativas = Len(Submitted)

\* Three submissions, a cancelled one and an empty one among them, then blocked.
C2_Witness ==
    /\ Occurs(Bloqueada) = 1
    /\ tentativas = 3
    /\ \E k \in 1..Len(Submitted) : Submitted[k].kind = "null"
    /\ \E k \in 1..Len(Submitted) : Submitted[k] = [kind |-> "str", chars |-> <<>>]

\* C3: once loopWhile has ended, the number of "Você digitou:" lines is the
\* number of its inputs minus 1, the k-th line carries the k-th value obtained,
\* which for an input written as an integer is that integer, and the last value
\* obtained is 3; so a first input of 3 leaves no such line.
IsIntegerText(v) ==
    /\ v.kind = "str"
    /\ v.chars # <<>>
    /\ \A k \in 1..Len(v.chars) : v.chars[k] \in {"0", "1", "2", "3", "4", "5", "6", "7", "8", "9"}

IntegerOf(v) == DigitsValue(v.chars, 10, 0)

C3_DigitadoCount ==
    After("loop6") =>
        /\ Len(LoopAsked) >= 1
        /\ Len(Digitado) = Len(LoopAsked) - 1
        /\ \A k \in 1..Len(Digitado) :
              /\ Len(Digitado[k].nums) = 1
              /\ Digitado[k].nums[1] # Num(3)
              /\ IsIntegerText(LoopAsked[k].answer) =>
                    Digitado[k].nums[1] = Num(IntegerOf(LoopAsked[k].answer))
        /\ IsIntegerText(LoopAsked[Len(LoopAsked)].answer) =>
              IntegerOf(LoopAsked[Len(LoopAsked)].answer) = 3
        /\ LoopAsked[1].answer = [kind |-> "str", chars |-> <<"3">>] => Digitado = <<>>

\* Three integer inputs 7, 7, 3: two lines, both carrying 7.
C3_Witness ==
    /\ After("loop6")
    /\ Len(LoopAsked) = 3
    /\ \A k \in 1..3 : IsIntegerText(LoopAsked[k].answer)
    /\ Digitado = << [text |-> <<"Você digitou:">>, nums |-> <<Num(7)>>],
                     [text |-> <<"Você digitou:">>, nums |-> <<Num(7)>>] >>

----------------------------------------------------------------------------
\* The number each answer offered to solicitarCincoNumeros stands for.
ValueOf(answer) ==
    CASE answer = [kind |-> "str", chars |-> <<"1", ".", "5">>] ->
             [kind |-> "fin", neg |-> FALSE, m |-> 15, e |-> 1]
      [] answer = [kind |-> "str", chars |-> <<"-", "3">>] -> Num(-3)
      [] OTHER -> [kind |-> "nan", neg |-> FALSE, m |-> 0, e |-> 0]

\* C4: solicitarCincoNumeros never prompts more than 5 times and has collected
\* one value per prompt; once it has printed, exactly 5 prompts were issued,
\* labelled 1º .. 5º in that order, numeros holds the 5 values the answers stand
\* for, in arrival order (1.5 stays 1.5, -3 stays -3, a non-numeric answer is
\* NaN in its slot), and the lines after "Números digitados:" are those 5 values
\* in the same order, followed by the next section's header.
C4_FiveCollectedInOrder ==
    /\ Len(NumerosAsked) <= 5
    /\ After("numeros42") => Len(numeros) = Len(NumerosAsked)
    /\ After("numeros43") =>
          /\ Len(NumerosAsked) = 5
          /\ [k \in 1..5 |-> NumerosAsked[k].label] =
                << <<"Digite o ", "1", "º número:">>, <<"Digite o ", "2", "º número:">>,
                   <<"Digite o ", "3", "º número:">>, <<"Digite o ", "4", "º número:">>,
                   <<"Digite o ", "5", "º número:">> >>
          /\ numeros = [k \in 1..5 |-> ValueOf(NumerosAsked[k].answer)]
          /\ Occurs(NumerosTitulo) = 1
          /\ LET p == PositionOf(NumerosTitulo)
             IN  /\ Len(out) >= p + 5
                 /\ \A k \in 1..5 : out[p + k] = [text |-> <<>>, nums |-> <<numeros[k]>>]
                 /\ Len(out) > p + 5 => out[p + 6] = HeaderFuncoes

\* Printed list with a duplicate fractional value, a negative one and a NaN.
C4_Witness ==
    /\ After("numeros43")
    /\ numeros[1] = [kind |-> "fin", neg |-> FALSE, m |-> 15, e |-> 1]
    /\ numeros[2] = numeros[1]
    /\ numeros[3] = Num(-3)
    /\ numeros[4].kind = "nan"
    /\ Len(numeros) = 5

\* What the output holds once exibirListaFixa has run.
C5_StateOfOutput ==
    After("lista35") =>
        /\ Occurs(HeaderLista) = 1
        /\ Occurs(ListaFixaTitulo) = 1
        /\ LET p == PositionOf(HeaderLista)
           IN  /\ Len(out) >= p + 5
               /\ SubSeq(out, p + 1, p + 5) =
                     << ListaFixaTitulo,
                        [text |-> <<>>, nums |-> <<Num(10)>>],
                        [text |-> <<>>, nums |-> <<Num(20)>>],
                        [text |-> <<>>, nums |-> <<Num(30)>>],
                        [text |-> <<>>, nums |-> <<Num(40)>>] >>
               /\ Len(out) > p + 5 => out[p + 6] = HeaderNumeros

\* C5: once exibirListaFixa has run, whatever came before, the output holds
\* right after the LISTA FIXA header the line "Lista fixa de 4 números:" and then
\* exactly the lines 10, 20, 30, 40, in that order, the next line (if any) being
\* the following section's header; and the step of exibirListaFixa issues no
\* prompt.
C5_FixedListAlways ==
    /\ []C5_StateOfOutput
    /\ [][pc = "lista35" => asked' = asked /\ Len(out') = Len(out) + 5]_vars

\* The fixed list was printed after a run that was denied access and saw a NaN.
C5_Witness ==
    /\ After("lista35")
    /\ Occurs(Bloqueada) = 1
    /\ Len(Digitado) > 0
    /\ Digitado[1].nums[1].kind = "nan"

----------------------------------------------------------------------------
\* The lines that mark a component in the output: every line but the values
\* printed by a forEach and the "Você digitou:" lines.
ComponentLines ==
    SelectSeq(out, LAMBDA l : l.text # <<>> /\ l.text # <<"Você digitou:">>)

ScriptLines(senha) ==
    << HeaderLoop, Encerrando, HeaderSenha, senha, HeaderLista, ListaFixaTitulo,
       HeaderNumeros, NumerosTitulo, HeaderFuncoes, BemVindo, OlaAna, QuadradoDe5,
       SubtracaoDe10e3 >>

\* The header printed last: the section the script is in.
RECURSIVE SectionOf(_)
SectionOf(lines) ==
    IF lines = <<>> THEN Text("")
    ELSE IF lines[Len(lines)] \in Headers THEN lines[Len(lines)]
    ELSE SectionOf(SubSeq(lines, 1, Len(lines) - 1))

\* The header under which a prompt with this label belongs.
SectionOfLabel(label) ==
    CASE label \in {<<"Digite um número:">>, <<"Digite outro número:">>} -> HeaderLoop
      [] label = <<"Digite a senha de acesso:">> -> HeaderSenha
      [] OTHER -> HeaderNumeros

\* Some header line lies strictly between positions p and q of the output.
HeaderBetween(p, q) == \E h \in (p + 1)..(q - 1) : out[h] \in Headers

C6_OrderOfOutput ==
    /\ \/ IsPrefix(ComponentLines, ScriptLines(Concedido))
       \/ IsPrefix(ComponentLines, ScriptLines(Bloqueada))
    /\ pc = "done" =>
          /\ Len(ComponentLines) = 13
          /\ Len(LoopAsked) >= 1 /\ Len(SenhaAsked) >= 1 /\ Len(NumerosAsked) = 5
          /\ asked = LoopAsked \o SenhaAsked \o NumerosAsked
          /\ HeaderBetween(PositionOf(Encerrando),
                           PositionOf(IF acesso THEN Concedido ELSE Bloqueada))
          /\ HeaderBetween(PositionOf(IF acesso THEN Concedido ELSE Bloqueada),
                           PositionOf(ListaFixaTitulo))
          /\ HeaderBetween(PositionOf(ListaFixaTitulo), PositionOf(NumerosTitulo))
          /\ HeaderBetween(PositionOf(NumerosTitulo), PositionOf(BemVindo))
          /\ PositionOf(SubtracaoDe10e3) = PositionOf(QuadradoDe5) + 1

\* C6 (amended): the output marks of the six components appear exactly once and
\* in the script's order, whichever way validaSenha ended; every prompt is
\* answered while the script is in its own component's section, so a component's
\* prompts are over before the next begins; a header line precedes each of the
\* first five components, and the line of Subtracao directly follows the line of
\* calcularQuadrado under the FUNÇÕES header, no header between them.
C6_DriverOrder ==
    /\ []C6_OrderOfOutput
    /\ [][asked' # asked =>
             /\ Len(asked') = Len(asked) + 1
             /\ out' = out
             /\ SectionOfLabel(asked'[Len(asked')].label) = SectionOf(out)]_vars

\* The script reached its end although access was denied.
C6_Witness ==
    /\ pc = "done"
    /\ ~acesso
    /\ Occurs(Bloqueada) = 1
    /\ out[Len(out)] = SubtracaoDe10e3

\* C6 as stated: at the end of the script a header line lies between the output
\* of every two consecutive components, Subtracao's and the text functions'
\* included.
C6_HeaderBetweenEveryTwo ==
    pc = "done" =>
        /\ HeaderBetween(PositionOf(Encerrando),
                         PositionOf(IF acesso THEN Concedido ELSE Bloqueada))
        /\ HeaderBetween(PositionOf(IF acesso THEN Concedido ELSE Bloqueada),
                         PositionOf(ListaFixaTitulo))
        /\ HeaderBetween(PositionOf(ListaFixaTitulo), PositionOf(NumerosTitulo))
        /\ HeaderBetween(PositionOf(NumerosTitulo), PositionOf(BemVindo))
        /\ HeaderBetween(PositionOf(QuadradoDe5), PositionOf(SubtracaoDe10e3))

----------------------------------------------------------------------------
\* C7: calcularQuadrado(n) is n * n for every integer n of the range, hence
\* never negative; calcularQuadrado(5) = 25, calcularQuadrado(-4) = 16 and
\* calcularQuadrado(0) = 0.
C7_Square ==
    pc = "calcularQuadrado" =>
        /\ ret = args[1] * args[1]
        /\ ret >= 0
        /\ args[1] = 5 => ret = 25
        /\ args[1] = -4 => ret = 16
        /\ args[1] = 0 => ret = 0

C7_Witness == pc = "calcularQuadrado" /\ args[1] = -4 /\ ret = 16

\* C8: Subtracao(a, b) is a - b for every pair of integers of the range, the
\* first argument being the minuend: swapping the arguments negates the result;
\* Subtracao(10, 3) = 7 and Subtracao(3, 10) = -7.
C8_Subtract ==
    pc = "Subtracao" =>
        /\ ret + args[2] = args[1]
        /\ ret = -Subtracao(args[2], args[1])
        /\ args = <<10, 3>> => ret = 7
        /\ args = <<3, 10>> => ret = -7

C8_Witness == pc = "Subtracao" /\ args = <<3, 10>> /\ ret = -7

----------------------------------------------------------------------------
\* The values obtained by loopWhile so far.
Obtained == [k \in 1..Len(LoopAsked) |-> parseInt(LoopAsked[k].answer)]

C9_StateOfLoop ==
    /\ Occurs(Encerrando) <= 1
    /\ After("loop6") <=> Occurs(Encerrando) = 1
    /\ After("loop6") => Len(Obtained) >= 1 /\ Obtained[Len(Obtained)] = Num(3)
    /\ \A k \in 1..Len(Obtained) : Obtained[k] = Num(3) => k = Len(Obtained)
    /\ pc = "main75" => out[Len(out)] = Encerrando
    /\ pc \in {"loop4", "loop6"} => numero = Obtained[Len(Obtained)]
    /\ pc = "loop4" => ENABLED (LoopLog \/ LoopExit)
    /\ (\A k \in 1..Len(Obtained) : Obtained[k] # Num(3)) =>
          /\ pc \in {"main72", "loop3", "loop4", "loop6"}
          /\ \A k \in DOMAIN out : out[k] = HeaderLoop \/ out[k].text = <<"Você digitou:">>

\* C9: loopWhile is over exactly when the termination message has been emitted,
\* which happens at most once and as its last output; it is over only if the
\* last value obtained is 3 and no earlier one is; no prompt follows a value
\* equal to 3; as long as no value obtained equals 3 the script is still in
\* loopWhile and nothing of a later component has been emitted; and the step
\* after obtaining a value always exists: it ends the loop when the value is 3
\* and logs the value and prompts again otherwise, NaN included.
C9_LoopEndsOnlyOn3 ==
    /\ []C9_StateOfLoop
    /\ [][pc = "loop4" =>
             IF numero = Num(3)
             THEN pc' = "main75" /\ out' = Append(out, Encerrando)
             ELSE /\ pc' = "loop6"
                  /\ out' = Append(out, [text |-> <<"Você digitou:">>, nums |-> <<numero>>])]_vars

\* The loop ended on 3 after a cancelled prompt had produced a NaN.
C9_Witness ==
    /\ pc = "main75"
    /\ Len(LoopAsked) = 3
    /\ LoopAsked[2].answer.kind = "null"
    /\ Digitado[2].nums[1].kind = "nan"
    /\ numero = Num(3)

----------------------------------------------------------------------------
\* The terminal messages of validaSenha emitted so far.
TerminalMessages == Occurs(Concedido) + Occurs(Bloqueada)

C10_StateOfSenha ==
    /\ tentativas \in 0..3
    /\ tentativas = Len(SenhaAsked)
    /\ Len(SenhaAsked) = 0 => ~acesso
    /\ acesso => tentativa = Senha123456 /\ Submitted[Len(Submitted)] = Senha123456
    /\ TerminalMessages = IF After("senha26") THEN 1 ELSE 0
    /\ Occurs(Concedido) = 1 => acesso
    /\ Occurs(Bloqueada) = 1 => ~acesso

\* C10: tentativas stays within 0..3 and equals the number of password prompts
\* answered; acesso is false before the first submission, is true only if the
\* most recent submission is "123456", and once true stays true; no terminal
\* message is emitted before validaSenha reports and exactly one afterwards:
\* "Acesso concedido!" if acesso, "Senha bloqueada!" otherwise.
C10_SenhaInvariants ==
    /\ []C10_StateOfSenha
    /\ [][acesso => acesso']_vars

\* Granted on the second submission; the script has moved on.
C10_Witness ==
    /\ acesso
    /\ tentativas = 2
    /\ After("senha26")
    /\ Occurs(Concedido) = 1

=============================================================================
